---- MODULE Spec2Model ----
(***************************************************************************)
(* Wall construction planner of the cannon-rush bot (bot/tools/            *)
(* cannon_placement.py, bot/consts.py, bot/tools/grids.py).                *)
(*                                                                         *)
(* Tiles are pairs <<x, y>>.  A numpy grid is a function from tiles to     *)
(* numbers.  An Optional value that the code only tests for truthiness is  *)
(* the empty tuple << >> when it is None.                                  *)
(***************************************************************************)
EXTENDS Integers, Sequences, FiniteSets, TLC

(***************************************************************************)
(* bot/consts.py                                                           *)
(***************************************************************************)
A == 2^0
B == 2^1
C == 2^2
D == 2^3
E == 2^4
F == 2^5
G == 2^6
H == 2^7
I == 2^8
J == 2^9
K == 2^10
L == 2^11
Z == 2^12

\* np.array([[D, F, H, L], [C, Z, Z, K], [B, Z, Z, J], [A, E, G, I]])
DESIRABILITY_KERNEL ==
    << <<D, F, H, L>>, <<C, Z, Z, K>>, <<B, Z, Z, J>>, <<A, E, G, I>> >>

ALL_LETTERS == A + B + C + D + E + F + G + H + I + J + K + L
TOP == A + B + C + D
LEFT == A + E + G + I
BOTTOM == I + J + K + L
RIGHT == D + F + H + L
ALL_CORNERS == A + D + I + L

INVALID_BLOCK == {
    \* nothing
    0,
    \* everything
    ALL_LETTERS,
    \* single values
    A,
    B,
    C,
    D,
    E,
    F,
    G,
    H,
    I,
    J,
    K,
    L,
    \* adjacent pairs
    A + B,
    B + C,
    C + D,
    A + E,
    E + G,
    G + I,
    I + J,
    J + K,
    K + L,
    L + H,
    H + F,
    F + D,
    \* adjacent triple
    A + B + C,
    B + C + D,
    A + E + G,
    E + G + I,
    I + J + K,
    J + K + L,
    L + H + F,
    H + F + D,
    \* all one side
    A + B + C + D,
    A + E + G + I,
    I + J + K + L,
    L + H + F + D,
    \* two diagonals
    A + D,
    A + I,
    A + L,
    D + I,
    D + L,
    I + L,
    \* already blocked corner (length 1)
    A + B + E,
    A + B + C + E,
    A + B + C + D + E,
    A + E + G + B,
    A + E + G + I + B,
    G + I + J,
    E + G + I + J,
    A + E + G + I + J,
    I + J + K + G,
    I + J + K + L + G,
    K + L + H,
    J + K + L + H,
    I + J + K + L + H,
    L + H + F + K,
    L + H + F + D + K,
    F + D + C,
    H + F + D + C,
    L + H + F + D + C,
    B + C + D + F,
    A + B + C + D + F,
    \* already blocked corner (length 2)
    A + B + C + E + G,
    A + B + C + E + G + I,
    E + G + I + J + K,
    A + E + G + I + J + K,
    J + K + L + H + F,
    J + K + L + H + F + D,
    H + F + D + C + B,
    L + H + F + D + C + B,
    \* already blocked corner (length 3)
    A + B + C + D + E + G + I,
    A + E + G + I + J + K + L,
    I + J + K + L + H + F + D,
    L + H + F + D + C + B + A,
    \* full side + 2 that were somehow missing
    TOP + E + G,
    TOP + F + H,
    BOTTOM + G + E,
    BOTTOM + H + F,
    \* pocket
    E + A + B + C + D + F,
    G + E + A + B + C + D + F,
    E + A + B + C + D + F + H,
    G + E + A + B + C + D + F + H,
    I + G + E + A + B + C + D + F,
    I + G + E + A + B + C + D + F + H,
    L + H + F + D + C + B + A + E,
    L + H + F + D + C + B + A + E + G,
    I + G + E + A + B + C + D + F + H + L,
    \* pocket
    B + A + E + G + I + J,
    B + A + E + G + I + J + K,
    C + B + A + E + G + I + J,
    C + B + A + E + G + I + J + K,
    D + C + B + A + E + G + I + J,
    D + C + B + A + E + G + I + J + K,
    B + A + E + G + I + J + K + L,
    C + B + A + E + G + I + J + K + L,
    D + C + B + A + E + G + I + J + K + L,
    \* pocket
    G + I + J + K + L + H,
    E + G + I + J + K + L + H,
    G + I + J + K + L + H + F,
    E + G + I + J + K + L + H + F,
    A + E + G + I + J + K + L + H,
    A + E + G + I + J + K + L + H + F,
    G + I + J + K + L + H + F + D,
    A + E + G + I + J + K + L + H + F,
    A + E + G + I + J + K + L + H + F + D,
    \* pocket
    K + L + H + F + D + C,
    J + K + L + H + F + D + C,
    K + L + H + F + D + C + B,
    J + K + L + H + F + D + C + B,
    I + J + K + L + H + F + D + C,
    I + J + K + L + H + F + D + C + B,
    K + L + H + F + D + C + B + A,
    I + J + K + L + H + F + D + C + B,
    I + J + K + L + H + F + D + C + B + A,
    \* side + diagonal pocket
    B + E + G + J,
    B + A + E + G + J,
    B + E + G + I + J,
    B + E + G,
    E + G + J,
    \* side + diagonal pocket
    G + J + K + H,
    G + I + J + K + H,
    G + J + K + L + H,
    G + J + K,
    J + K + H,
    \* side + diagonal pocket
    K + H + F + C,
    K + L + H + F + C,
    K + H + F + D + C,
    K + H + F,
    H + F + D,
    \* side + diagonal pocket
    F + C + B + E,
    F + D + C + B + E,
    F + C + B + A + E,
    F + C + B,
    B + C + E,
    \* everything except one
    ALL_LETTERS - A,
    ALL_LETTERS - B,
    ALL_LETTERS - C,
    ALL_LETTERS - D,
    ALL_LETTERS - E,
    ALL_LETTERS - F,
    ALL_LETTERS - G,
    ALL_LETTERS - H,
    ALL_LETTERS - I,
    ALL_LETTERS - J,
    ALL_LETTERS - K,
    \* only missing two corners
    ALL_LETTERS - A - D,
    ALL_LETTERS - A - L,
    ALL_LETTERS - A - I,
    ALL_LETTERS - D - L,
    ALL_LETTERS - D - I,
    ALL_LETTERS - I - L,
    \* only missing three corners
    ALL_LETTERS - ALL_CORNERS + D,
    ALL_LETTERS - ALL_CORNERS + I,
    ALL_LETTERS - ALL_CORNERS + A,
    ALL_LETTERS - ALL_CORNERS + L,
    \* only missing all corners
    ALL_LETTERS - ALL_CORNERS
    }

(***************************************************************************)
(* Numbers of the program.                                                 *)
(***************************************************************************)
\* np.inf in a grid
INF == 1000000
\* the window reaches 20 tiles from the anchor on each side
WINDOW_REACH == 20
\* self.terrain_weight, self.blocking_building_weight,
\* self.non_blocking_building_weight
terrain_weight == 1
blocking_building_weight == 100
non_blocking_building_weight == 200
\* len(wall_path) < 40
SEALED_LENGTH == 40
\* draw_circle(point, 8, ...)
START_RADIUS == 8
\* the corners A, D, I, L: 0b100100001001
CORNER_MASK == 2313

(***************************************************************************)
(* Bounds of the model.                                                    *)
(***************************************************************************)
\* side of the square map of the planner specification
MapSize == 12
\* largest window side of the all-open convolution inputs
OpenMax == 5
\* side of the window of the exhaustive convolution inputs
ConvWin == 4
\* pylons the builder may place in one game
MaxPylons == 3
\* longest gap, in tiles, of the rock ring of an initial map
MaxGap == 3

VARIABLES
    world,                 \* tile -> kind of terrain or structure (the game)
    pylons,                \* locations of the pylons standing (the game)
    reference,             \* manager_mediator.get_enemy_ramp.bottom_center
    initial_cannon,        \* self.initial_cannon (the anchor)
    initial_xbound,        \* self.initial_xbound
    initial_ybound,        \* self.initial_ybound
    basic_cannon_grid,     \* self.basic_cannon_grid
    valid_blocks,          \* self.valid_blocks (blocking map)
    invalid_blocks,        \* self.invalid_blocks (non-blocking map)
    current_walling_path,  \* self.current_walling_path
    wall_start_point,      \* self.wall_start_point
    next_building,         \* self.next_building
    tick                   \* what the last call of update() did

vars == <<world, pylons, reference, initial_cannon, initial_xbound, initial_ybound,
          basic_cannon_grid, valid_blocks, invalid_blocks,
          current_walling_path, wall_start_point, next_building, tick>>

(***************************************************************************)
(* The game's grids, read from the world.  A tile is "open" (pathable,     *)
(* buildable, on the high ground of the anchor's region), "rock"           *)
(* (unpathable terrain), "nobuild" (pathable, not buildable), "low"        *)
(* (pathable and buildable, at another height), "pylon" or "cannon" (a     *)
(* structure standing on it).                                              *)
(***************************************************************************)
HIGH_GROUND == "high"
LOW_GROUND == "low"

Unpathable == {"rock", "pylon", "cannon"}

\* map_data.get_pyastar_grid(): 1 on a pathable tile, np.inf elsewhere
get_pyastar_grid ==
    [t \in DOMAIN world |-> IF world[t] \in Unpathable THEN INF ELSE 1]

\* ai.game_info.placement_grid.data_numpy
placement_grid ==
    [t \in DOMAIN world |-> IF world[t] \in {"open", "low"} THEN 1 ELSE 0]

\* ai.game_info.terrain_height.data_numpy
terrain_height_grid ==
    [t \in DOMAIN world |-> IF world[t] = "low" THEN LOW_GROUND ELSE HIGH_GROUND]

\* map_data.get_walling_grid(): np.inf on a tile no ground unit can cross
get_walling_grid ==
    [t \in DOMAIN world |-> IF world[t] \in Unpathable THEN INF ELSE 1]

\* a function as a table: its values are computed once, not at every use
Table(f) == f @@ << >>

\* bit n of v, and the absolute value
Bit(v, n) == (v \div 2^n) % 2

Abs(n) == IF n < 0 THEN -n ELSE n

(***************************************************************************)
(* bot/tools/grids.py                                                      *)
(***************************************************************************)
Footprint(location) ==
    {<<location[1] + i, location[2] + j>> : i \in {-1, 0}, j \in {-1, 0}}

\* grid[(location[0] + i, location[1] + j)] = weight for i, j in [-1, 0]
modify_two_by_two(grid, location, weight) ==
    [t \in DOMAIN grid |-> IF t \in Footprint(location) THEN weight ELSE grid[t]]

\* generate_convolution_grid allocating np.zeros and writing 1 on the tiles
\* of the window that cannot be used
generate_convolution_grid_zeros(x_bound, y_bound, terrain_height, pathing_grid) ==
    LET x_min == x_bound[1]
        x_max == x_bound[2]
        y_min == y_bound[1]
        y_max == y_bound[2]
        in_window(i, j) == i \in x_min .. (x_max - 1) /\ j \in y_min .. (y_max - 1)
        cleared(i, j) ==
            /\ pathing_grid[<<i, j>>] = 1
            /\ placement_grid[<<i, j>>] = 1
            /\ terrain_height_grid[<<i, j>>] \in terrain_height
        anchor_inside ==
            /\ x_min < initial_cannon[1] /\ initial_cannon[1] < x_max
            /\ y_min < initial_cannon[2] /\ initial_cannon[2] < y_max
        on_anchor(i, j) ==
            anchor_inside /\ <<i, j>> \in Footprint(initial_cannon)
    IN  [c \in (0 .. (x_max - x_min)) \X (0 .. (y_max - y_min)) |->
            IF on_anchor(c[1] + x_min, c[2] + y_min) THEN 1
            ELSE IF ~in_window(c[1] + x_min, c[2] + y_min) THEN 0
            ELSE IF cleared(c[1] + x_min, c[2] + y_min) THEN 0 ELSE 1]

\* generate_convolution_grid without the step that writes the anchor's footprint
generate_convolution_grid_no_anchor(x_bound, y_bound, terrain_height, pathing_grid) ==
    LET x_min == x_bound[1]
        y_min == y_bound[1]
    IN  [c \in (0 .. (x_bound[2] - x_min)) \X (0 .. (y_bound[2] - y_min)) |->
            IF /\ c[1] + x_min \in x_min .. (x_bound[2] - 1)
               /\ c[2] + y_min \in y_min .. (y_bound[2] - 1)
               /\ pathing_grid[<<c[1] + x_min, c[2] + y_min>>] = 1
               /\ placement_grid[<<c[1] + x_min, c[2] + y_min>>] = 1
               /\ terrain_height_grid[<<c[1] + x_min, c[2] + y_min>>] \in terrain_height
            THEN 0 ELSE 1]

(***************************************************************************)
(* CannonPlacement.generate_convolution_grid: 0 on a tile of the window    *)
(* that is pathable, buildable and at a height of the region, 1 elsewhere, *)
(* on the row and column of index x_max - x_min and y_max - y_min, and on  *)
(* the anchor's footprint when the anchor is strictly inside the window.   *)
(***************************************************************************)
generate_convolution_grid(x_bound, y_bound, terrain_height, pathing_grid) ==
    LET x_min == x_bound[1]
        x_max == x_bound[2]
        y_min == y_bound[1]
        y_max == y_bound[2]
        cleared(i, j) ==
            /\ i \in x_min .. (x_max - 1)
            /\ j \in y_min .. (y_max - 1)
            /\ pathing_grid[<<i, j>>] = 1
            /\ placement_grid[<<i, j>>] = 1
            /\ terrain_height_grid[<<i, j>>] \in terrain_height
        anchor_inside ==
            /\ x_min < initial_cannon[1] /\ initial_cannon[1] < x_max
            /\ y_min < initial_cannon[2] /\ initial_cannon[2] < y_max
        on_anchor(i, j) ==
            anchor_inside /\ <<i, j>> \in Footprint(initial_cannon)
    IN  [c \in (0 .. (x_max - x_min)) \X (0 .. (y_max - y_min)) |->
            IF cleared(c[1] + x_min, c[2] + y_min)
               /\ ~on_anchor(c[1] + x_min, c[2] + y_min)
            THEN 0 ELSE 1]

\* convolve2d with the kernel not flipped (a correlation)
convolve2d_unflipped(grid, x, y) ==
    LET term(i, j) == grid[<<x + i, y + j>>] * DESIRABILITY_KERNEL[i + 1][j + 1]
    IN  term(0, 0) + term(0, 1) + term(0, 2) + term(0, 3)
      + term(1, 0) + term(1, 1) + term(1, 2) + term(1, 3)
      + term(2, 0) + term(2, 1) + term(2, 2) + term(2, 3)
      + term(3, 0) + term(3, 1) + term(3, 2) + term(3, 3)

\* scipy.signal.convolve2d(grid, kernel, mode="valid") at output index (x, y):
\* the sum over i, j in 0..3 of grid[x + i][y + j] * kernel[3 - i][3 - j]
convolve2d(grid, x, y) ==
    LET term(i, j) == grid[<<x + i, y + j>>] * DESIRABILITY_KERNEL[4 - i][4 - j]
    IN  term(0, 0) + term(0, 1) + term(0, 2) + term(0, 3)
      + term(1, 0) + term(1, 1) + term(1, 2) + term(1, 3)
      + term(2, 0) + term(2, 1) + term(2, 2) + term(2, 3)
      + term(3, 0) + term(3, 1) + term(3, 2) + term(3, 3)

\* The scores of the window's candidate points: placements[x][y] belongs to
\* the point (x + x_min + 2, y + y_min + 2).
Placements(x_bound, y_bound, terrain_height, pathing_grid) ==
    LET grid == Table(generate_convolution_grid(x_bound, y_bound, terrain_height,
                                                pathing_grid))
        x_min == x_bound[1]
        y_min == y_bound[1]
    IN  [p \in ((x_min + 2) .. (x_bound[2] - 1)) \X ((y_min + 2) .. (y_bound[2] - 1))
            |-> convolve2d(grid, p[1] - x_min - 2, p[2] - y_min - 2)]

\* the test "score in INVALID_BLOCK" of a score below 4096
NonBlocking(score) == score \in INVALID_BLOCK

\* perform_convolutions with "score > 4096" as its first test
perform_convolutions_gt(x_bound, y_bound, terrain_height, pathing_grid) ==
    LET placements == Table(Placements(x_bound, y_bound, terrain_height, pathing_grid))
        usable == {p \in DOMAIN placements : ~(placements[p] > 4096)}
        blocking == {p \in usable : ~NonBlocking(placements[p])}
    IN  << [p \in blocking |-> placements[p]],
           [p \in usable \ blocking |-> placements[p]] >>

\* perform_convolutions with the two branches of the classification exchanged
perform_convolutions_swapped(x_bound, y_bound, terrain_height, pathing_grid) ==
    LET placements == Table(Placements(x_bound, y_bound, terrain_height, pathing_grid))
        usable == {p \in DOMAIN placements : ~(placements[p] >= 4096)}
        blocking == {p \in usable : ~NonBlocking(placements[p])}
    IN  << [p \in usable \ blocking |-> placements[p]],
           [p \in blocking |-> placements[p]] >>

\* perform_convolutions with point = (x + x_min + 3, y + y_min + 3)
perform_convolutions_shifted(x_bound, y_bound, terrain_height, pathing_grid) ==
    LET placements == Table(Placements(x_bound, y_bound, terrain_height, pathing_grid))
        usable == {p \in DOMAIN placements : ~(placements[p] >= 4096)}
        blocking == {p \in usable : ~NonBlocking(placements[p])}
        shifted(points) == {<<p[1] + 1, p[2] + 1>> : p \in points}
    IN  << [q \in shifted(blocking) |-> placements[<<q[1] - 1, q[2] - 1>>]],
           [q \in shifted(usable \ blocking) |-> placements[<<q[1] - 1, q[2] - 1>>]] >>

\* perform_convolutions that skips a point which is already a key of
\* self.valid_blocks or self.invalid_blocks
perform_convolutions_skip_known(x_bound, y_bound, terrain_height, pathing_grid) ==
    LET placements == Table(Placements(x_bound, y_bound, terrain_height, pathing_grid))
        known == DOMAIN valid_blocks \cup DOMAIN invalid_blocks
        usable == {p \in DOMAIN placements \ known : ~(placements[p] >= 4096)}
        blocking == {p \in usable : ~NonBlocking(placements[p])}
    IN  << [p \in blocking |-> placements[p]],
           [p \in usable \ blocking |-> placements[p]] >>

(***************************************************************************)
(* CannonPlacement.perform_convolutions: <<valid_blocks,                   *)
(* valid_non_blocking_positions>>, each a map from candidate point to      *)
(* score.                                                                  *)
(***************************************************************************)
perform_convolutions(x_bound, y_bound, terrain_height, pathing_grid) ==
    LET placements == Table(Placements(x_bound, y_bound, terrain_height, pathing_grid))
        usable == {p \in DOMAIN placements : ~(placements[p] >= 4096)}
        blocking == {p \in usable : ~NonBlocking(placements[p])}
    IN  << [p \in blocking |-> placements[p]],
           [p \in usable \ blocking |-> placements[p]] >>

(***************************************************************************)
(* The pathfinder and the disk of map_analyzer, a library outside this     *)
(* repository.  The closed walks considered are the square rings around    *)
(* the origin's 2x2 footprint: ring r is the boundary of the square that   *)
(* reaches r tiles beyond the footprint on every side.  The pathfinder     *)
(* returns the ring through the start tile, walked clockwise from the      *)
(* start tile back to it, when every tile of that ring has a finite weight *)
(* in the grid it is given, and no walk otherwise.                         *)
(***************************************************************************)
Max(a, b) == IF a >= b THEN a ELSE b

Min(a, b) == IF a <= b THEN a ELSE b

\* how far tile t lies beyond the footprint of origin (0 on the footprint)
RingOf(origin, t) ==
    LET dx == IF t[1] > origin[1] THEN t[1] - origin[1]
              ELSE IF t[1] < origin[1] - 1 THEN origin[1] - 1 - t[1] ELSE 0
        dy == IF t[2] > origin[2] THEN t[2] - origin[2]
              ELSE IF t[2] < origin[2] - 1 THEN origin[2] - 1 - t[2] ELSE 0
    IN  Max(dx, dy)

RingLen(r) == 8 * r + 4

\* the k-th tile of ring r, clockwise from its top left corner
RingTile(origin, r, k) ==
    LET m == 2 * r + 1
        x0 == origin[1] - 1 - r
        x1 == origin[1] + r
        y0 == origin[2] - 1 - r
        y1 == origin[2] + r
    IN  IF k < m THEN <<x0 + k, y1>>
        ELSE IF k < 2 * m THEN <<x1, y1 - (k - m)>>
        ELSE IF k < 3 * m THEN <<x1 - (k - 2 * m), y0>>
        ELSE <<x0, y0 + (k - 3 * m)>>

RingTiles(origin, r) == {RingTile(origin, r, k) : k \in 0 .. (RingLen(r) - 1)}

\* map_data.clockwise_pathfind(start, goal, origin, grid), start = goal
clockwise_pathfind(start, goal, origin, grid) ==
    IF start = << >> \/ start \notin DOMAIN grid THEN << >>
    ELSE LET r == RingOf(origin, start)
             n == RingLen(r)
         IN  IF r < 1 \/ \E t \in RingTiles(origin, r) :
                            t \notin DOMAIN grid \/ grid[t] >= INF
             THEN << >>
             ELSE LET k0 == CHOOSE k \in 0 .. (n - 1) : RingTile(origin, r, k) = start
                  IN  [i \in 1 .. (n + 1) |-> RingTile(origin, r, (k0 + i - 1) % n)]

\* draw_circle(point, radius, shape): the tiles of the grid less than radius
\* away from point
draw_circle(point, radius, shape) ==
    {t \in shape : (t[1] - point[1]) * (t[1] - point[1])
                   + (t[2] - point[2]) * (t[2] - point[2]) < radius * radius}

(***************************************************************************)
(* Orders of iteration.  numpy lists the tiles of a disk, and              *)
(* perform_convolutions inserts the candidates of a map, by x and then     *)
(* by y.                                                                   *)
(***************************************************************************)
Before(s, t) == s[1] < t[1] \/ (s[1] = t[1] /\ s[2] < t[2])

SquaredDistance(s, t) ==
    (s[1] - t[1]) * (s[1] - t[1]) + (s[2] - t[2]) * (s[2] - t[2])

\* np.argmin over the points in their order: the first of the nearest
ArgMin(points, target) ==
    CHOOSE p \in points :
        \A q \in points \ {p} :
            \/ SquaredDistance(p, target) < SquaredDistance(q, target)
            \/ /\ SquaredDistance(p, target) = SquaredDistance(q, target)
               /\ Before(p, q)

(***************************************************************************)
(* CannonPlacement.generate_basic_cannon_grid: the inverted walling grid,  *)
(* 1 where no ground unit can cross and np.inf elsewhere, the footprints   *)
(* of the cannons at np.inf.                                               *)
(***************************************************************************)
generate_basic_cannon_grid(cannon_position) ==
    modify_two_by_two(
        [t \in DOMAIN world |-> IF get_walling_grid[t] = INF THEN 1 ELSE INF],
        cannon_position, INF)

\* the tile (89, 138) handed to calculate_start_point, on the model's map
Blacklist == {<<4, 8>>}

\* for pos in blacklist: grid[pos] = np.inf
blacklist_grid(grid, blacklist) ==
    [t \in DOMAIN grid |-> IF t \in blacklist THEN INF ELSE grid[t]]

\* calculate_start_point without the loop that writes the blacklist
calculate_start_point_no_blacklist(cannon_placement, grid, blacklist) ==
    LET disk == draw_circle(cannon_placement, START_RADIUS, DOMAIN grid)
        possible_points ==
            {t \in disk : /\ Abs(grid[t]) < terrain_weight + 1
                          /\ grid[t] < INF}
    IN  IF possible_points = {} THEN << >>
        ELSE ArgMin(possible_points, cannon_placement)

(***************************************************************************)
(* CannonPlacement.calculate_start_point, on the grid with the blacklist   *)
(* written: the tile of the disk of radius 8 with abs(weight) <            *)
(* terrain_weight + 1 and weight < np.inf that is nearest the anchor.      *)
(***************************************************************************)
calculate_start_point(cannon_placement, grid, blacklist) ==
    LET blacklisted == blacklist_grid(grid, blacklist)
        disk == draw_circle(cannon_placement, START_RADIUS, DOMAIN grid)
        possible_points ==
            {t \in disk : /\ Abs(blacklisted[t]) < terrain_weight + 1
                          /\ blacklisted[t] < INF}
    IN  IF possible_points = {} THEN << >>
        ELSE ArgMin(possible_points, cannon_placement)

\* for pos in blocks: modify_two_by_two(grid, pos, weight)
modify_all(grid, blocks, weight) ==
    LET covered == UNION {Footprint(pos) : pos \in DOMAIN blocks}
    IN  [t \in DOMAIN grid |-> IF t \in covered THEN weight ELSE grid[t]]

\* find_wall_path without the test "if self.wall_start_point:" before the
\* call of the pathfinder
find_wall_path_unguarded(cannon_placement, start_point, basic_grid, blocks, non_blocks) ==
    LET grid0 == IF start_point = << >>
                 THEN blacklist_grid(basic_grid, Blacklist) ELSE basic_grid
        start1 == IF start_point = << >>
                  THEN calculate_start_point(initial_cannon, basic_grid, Blacklist)
                  ELSE start_point
        grid1 == Table(modify_two_by_two(
                     modify_all(modify_all(grid0, blocks, blocking_building_weight),
                                non_blocks, non_blocking_building_weight),
                     cannon_placement, INF))
        grid2 == IF start1 = << >> THEN blacklist_grid(grid1, Blacklist) ELSE grid1
        start2 == IF start1 = << >>
                  THEN calculate_start_point(initial_cannon, grid1, Blacklist)
                  ELSE start1
    IN  [start |-> start2,
         grid |-> grid2,
         start_searched |-> start_point = << >>,
         pathfinder_called |-> TRUE,
         path |-> clockwise_pathfind(start2, start2, cannon_placement, grid2)]

\* find_wall_path looking for a start tile in every call
find_wall_path_restart(cannon_placement, start_point, basic_grid, blocks, non_blocks) ==
    LET grid0 == blacklist_grid(basic_grid, Blacklist)
        start1 == calculate_start_point(initial_cannon, basic_grid, Blacklist)
        grid1 == Table(modify_two_by_two(
                     modify_all(modify_all(grid0, blocks, blocking_building_weight),
                                non_blocks, non_blocking_building_weight),
                     cannon_placement, INF))
        grid2 == IF start1 = << >> THEN blacklist_grid(grid1, Blacklist) ELSE grid1
        start2 == IF start1 = << >>
                  THEN calculate_start_point(initial_cannon, grid1, Blacklist)
                  ELSE start1
    IN  [start |-> start2,
         grid |-> grid2,
         start_searched |-> TRUE,
         pathfinder_called |-> start2 # << >>,
         path |-> IF start2 # << >>
                  THEN clockwise_pathfind(start2, start2, cannon_placement, grid2)
                  ELSE << >>]

\* find_wall_path returning the walk without its last entry
find_wall_path_open(cannon_placement, start_point, basic_grid, blocks, non_blocks) ==
    LET grid0 == IF start_point = << >>
                 THEN blacklist_grid(basic_grid, Blacklist) ELSE basic_grid
        start1 == IF start_point = << >>
                  THEN calculate_start_point(initial_cannon, basic_grid, Blacklist)
                  ELSE start_point
        grid1 == Table(modify_two_by_two(
                     modify_all(modify_all(grid0, blocks, blocking_building_weight),
                                non_blocks, non_blocking_building_weight),
                     cannon_placement, INF))
        grid2 == IF start1 = << >> THEN blacklist_grid(grid1, Blacklist) ELSE grid1
        start2 == IF start1 = << >>
                  THEN calculate_start_point(initial_cannon, grid1, Blacklist)
                  ELSE start1
        walk == IF start2 # << >>
                THEN clockwise_pathfind(start2, start2, cannon_placement, grid2)
                ELSE << >>
    IN  [start |-> start2,
         grid |-> grid2,
         start_searched |-> start_point = << >>,
         pathfinder_called |-> start2 # << >>,
         path |-> IF walk = << >> THEN << >> ELSE SubSeq(walk, 1, Len(walk) - 1)]

(***************************************************************************)
(* CannonPlacement.find_wall_path: [start |-> self.wall_start_point after  *)
(* the call, grid |-> the weighted grid, path |-> the walk returned].      *)
(***************************************************************************)
find_wall_path(cannon_placement, start_point, basic_grid, blocks, non_blocks) ==
    LET grid0 == IF start_point = << >>
                 THEN blacklist_grid(basic_grid, Blacklist) ELSE basic_grid
        start1 == IF start_point = << >>
                  THEN calculate_start_point(initial_cannon, basic_grid, Blacklist)
                  ELSE start_point
        grid1 == Table(modify_two_by_two(
                     modify_all(modify_all(grid0, blocks, blocking_building_weight),
                                non_blocks, non_blocking_building_weight),
                     cannon_placement, INF))
        grid2 == IF start1 = << >> THEN blacklist_grid(grid1, Blacklist) ELSE grid1
        start2 == IF start1 = << >>
                  THEN calculate_start_point(initial_cannon, grid1, Blacklist)
                  ELSE start1
    IN  [start |-> start2,
         grid |-> grid2,
         start_searched |-> start_point = << >>,
         pathfinder_called |-> start2 # << >>,
         path |-> IF start2 # << >>
                  THEN clockwise_pathfind(start2, start2, cannon_placement, grid2)
                  ELSE << >>]

\* the table hamming_weight_lookups.json: the number of bits set in k
RECURSIVE hamming_lookup(_)
hamming_lookup(k) == IF k = 0 THEN 0 ELSE (k % 2) + hamming_lookup(k \div 2)

\* val & 0b100100001001
CornersOf(val) ==
    Bit(val, 0) * A + Bit(val, 3) * D + Bit(val, 8) * I + Bit(val, 11) * L

(***************************************************************************)
(* CannonPlacement.get_hamming_value(point, dictionaries) with             *)
(* remove_corners = True; the dictionaries are the two maps.               *)
(***************************************************************************)
get_hamming_value(point, blocks, non_blocks) ==
    IF point \in DOMAIN blocks
    THEN hamming_lookup(blocks[point] - CornersOf(blocks[point]))
    ELSE IF point \in DOMAIN non_blocks
    THEN hamming_lookup(non_blocks[point] - CornersOf(non_blocks[point]))
    ELSE -999

(***************************************************************************)
(* CannonPlacement.evaluate_walling_positions: for every candidate of the  *)
(* two maps with a footprint tile on the path, its SCORE, POINTS, BLOCKING *)
(* and WEIGHT.                                                             *)
(***************************************************************************)
evaluate_walling_positions(blocks, non_blocks, path) ==
    LET usage(d, blocking, pos) ==
            [score |-> Cardinality(Footprint(pos) \cap path),
             points |-> Footprint(pos) \cap path,
             blocking |-> blocking,
             weight |-> hamming_lookup(d[pos])]
        touching(d) == {pos \in DOMAIN d : Footprint(pos) \cap path # {}}
    IN  [pos \in touching(blocks) \cup touching(non_blocks) |->
            IF pos \in DOMAIN blocks THEN usage(blocks, TRUE, pos)
            ELSE usage(non_blocks, FALSE, pos)]

SeqToSet(s) == {s[i] : i \in 1 .. Len(s)}

\* pylon_usage lists the blocking candidates before the non-blocking ones
FirstNearest(usage, positions, target) ==
    CHOOSE p \in positions :
        \A q \in positions \ {p} :
            \/ SquaredDistance(p, target) < SquaredDistance(q, target)
            \/ /\ SquaredDistance(p, target) = SquaredDistance(q, target)
               /\ \/ usage[p].blocking /\ ~usage[q].blocking
                  \/ usage[p].blocking = usage[q].blocking /\ Before(p, q)

\* get_next_walling_position returning the tile beyond the chosen location
get_next_walling_position_beyond(blocks, non_blocks, walling_path) ==
    LET pylon_usage == evaluate_walling_positions(blocks, non_blocks,
                                                  SeqToSet(walling_path))
        scores == {pylon_usage[pos].score : pos \in DOMAIN pylon_usage}
        best == CHOOSE s \in scores : \A o \in scores : o <= s
        chosen == FirstNearest(pylon_usage,
                               {pos \in DOMAIN pylon_usage : pylon_usage[pos].score = best},
                               reference)
    IN  IF scores = {} \/ best = 0 THEN << >>
        ELSE <<chosen[1] + 1, chosen[2] + 1>>

\* get_next_walling_position measuring the distance to the anchor, not to
\* the enemy ramp
get_next_walling_position_anchor(blocks, non_blocks, walling_path) ==
    LET pylon_usage == evaluate_walling_positions(blocks, non_blocks,
                                                  SeqToSet(walling_path))
        scores == {pylon_usage[pos].score : pos \in DOMAIN pylon_usage}
        best == CHOOSE s \in scores : \A o \in scores : o <= s
    IN  IF scores = {} \/ best = 0 THEN << >>
        ELSE FirstNearest(pylon_usage,
                          {pos \in DOMAIN pylon_usage : pylon_usage[pos].score = best},
                          initial_cannon)

(***************************************************************************)
(* CannonPlacement.get_next_walling_position: the location chosen, or      *)
(* << >> for None.                                                         *)
(***************************************************************************)
get_next_walling_position(blocks, non_blocks, walling_path) ==
    LET pylon_usage == evaluate_walling_positions(blocks, non_blocks,
                                                  SeqToSet(walling_path))
        scores == {pylon_usage[pos].score : pos \in DOMAIN pylon_usage}
        best == CHOOSE s \in scores : \A o \in scores : o <= s
    IN  IF scores = {} \/ best = 0 THEN << >>
        ELSE FirstNearest(pylon_usage,
                          {pos \in DOMAIN pylon_usage : pylon_usage[pos].score = best},
                          reference)

\* wall_is_finished without the test of the walk's length
wall_is_finished_any_walk(start_point, cannon_placement, grid) ==
    clockwise_pathfind(start_point, start_point, cannon_placement, grid) # << >>

(***************************************************************************)
(* CannonPlacement.wall_is_finished on a grid, from self.wall_start_point. *)
(***************************************************************************)
wall_is_finished(start_point, cannon_placement, grid) ==
    LET wall_path == clockwise_pathfind(start_point, start_point,
                                        cannon_placement, grid)
    IN  wall_path # << >> /\ Len(wall_path) < SEALED_LENGTH

\* placement_would_complete_wall writing the footprint as wall (weight 1)
placement_would_complete_wall_as_wall(start_point, basic_grid, placement) ==
    wall_is_finished(start_point, initial_cannon,
                     modify_two_by_two(basic_grid, placement, terrain_weight))

(***************************************************************************)
(* CannonPlacement.placement_would_complete_wall                           *)
(***************************************************************************)
placement_would_complete_wall(start_point, basic_grid, placement) ==
    wall_is_finished(start_point, initial_cannon,
                     modify_two_by_two(basic_grid, placement, INF))

(***************************************************************************)
(* Values of the planner's fields before the first update()                *)
(* (CannonPlacement.__init__).                                             *)
(***************************************************************************)
NoBuilding == [type_id |-> "None", location |-> << >>, final_placement |-> FALSE]

NoTick(op) ==
    [op |-> op, oracle_called |-> FALSE, sealed |-> FALSE, selected |-> << >>,
     emitted |-> "none", convolved |-> FALSE, start_searched |-> FALSE,
     pathfinder_called |-> FALSE, path_found |-> FALSE, walk |-> << >>,
     repeat |-> FALSE]

\* the candidate points of a window
CandidatePoints(x_bound, y_bound) ==
    ((x_bound[1] + 2) .. (x_bound[2] - 1)) \X ((y_bound[1] + 2) .. (y_bound[2] - 1))

WindowTiles(x_bound, y_bound) ==
    (x_bound[1] .. (x_bound[2] - 1)) \X (y_bound[1] .. (y_bound[2] - 1))

(***************************************************************************)
(* Specification SpecConv: perform_convolutions on bounded inputs.         *)
(*   - every 0/1 pattern of the 4x4 neighbourhood of the candidate (2, 2), *)
(*     the anchor outside the window; an obstructed tile is a rock, an     *)
(*     unbuildable tile or a low-ground tile according to its position;    *)
(*   - every small all-open window with the anchor in, on the edge of, or  *)
(*     outside the window.                                                 *)
(***************************************************************************)
Block == (0 .. 3) \X (0 .. 3)

ObstructionKind(t) ==
    CASE (t[1] + 2 * t[2]) % 3 = 0 -> "rock"
      [] (t[1] + 2 * t[2]) % 3 = 1 -> "nobuild"
      [] OTHER -> "low"

InitExhaustive ==
    /\ initial_xbound = <<0, ConvWin>>
    /\ initial_ybound = <<0, ConvWin>>
    /\ initial_cannon = <<31, 99>>
    /\ \E obstructed \in SUBSET Block :
          world = [t \in WindowTiles(initial_xbound, initial_ybound) |->
                      IF t \in obstructed THEN ObstructionKind(t) ELSE "open"]

InitOpen ==
    /\ \E x0 \in 0 .. 1, w \in 4 .. OpenMax : initial_xbound = <<x0, x0 + w>>
    /\ \E y0 \in 0 .. 1, h \in 4 .. OpenMax : initial_ybound = <<y0, y0 + h>>
    /\ initial_cannon \in (0 .. (initial_xbound[2] + 1)) \X (0 .. (initial_ybound[2] + 1))
    /\ world = [t \in WindowTiles(initial_xbound, initial_ybound) |-> "open"]

InitConv ==
    /\ InitOpen \/ InitExhaustive
    /\ pylons = {}
    /\ reference = <<0, 0>>
    /\ basic_cannon_grid = << >>
    /\ valid_blocks = << >>
    /\ invalid_blocks = << >>
    /\ current_walling_path = << >>
    /\ wall_start_point = << >>
    /\ next_building = NoBuilding
    /\ tick = NoTick("input")

\* self.valid_blocks, self.invalid_blocks = self.perform_convolutions(...)
Convolve ==
    /\ tick.op = "input"
    /\ LET maps == perform_convolutions(initial_xbound, initial_ybound,
                                        {HIGH_GROUND}, get_pyastar_grid)
       IN  /\ valid_blocks' = maps[1]
           /\ invalid_blocks' = maps[2]
    /\ tick' = NoTick("convolved")
    /\ UNCHANGED <<world, pylons, reference, initial_cannon, initial_xbound,
                   initial_ybound, basic_cannon_grid, current_walling_path,
                   wall_start_point, next_building>>

NextConv == Convolve

SpecConv == InitConv /\ [][NextConv]_vars

(***************************************************************************)
(* Specification Spec: the planner on a map, one update() per game tick,   *)
(* the builder and the opponent between the ticks.                         *)
(***************************************************************************)
MapTiles == (0 .. (MapSize - 1)) \X (0 .. (MapSize - 1))

\* self.initial_cannon, on the model's map
Anchor == <<6, 6>>

\* the rings around the anchor that lie on the map
MapRings ==
    {r \in 1 .. MapSize :
        /\ Anchor[1] - 1 - r >= 0 /\ Anchor[1] + r <= MapSize - 1
        /\ Anchor[2] - 1 - r >= 0 /\ Anchor[2] + r <= MapSize - 1}

\* a map: open high ground, and a ring of rock around the anchor with a gap
\* of len tiles from its g-th tile on, the gap open or not buildable
RingMap(r, g, len, gap_kind) ==
    LET gap == {RingTile(Anchor, r, (g + i) % RingLen(r)) : i \in 0 .. (len - 1)}
    IN  [t \in MapTiles |->
            IF RingOf(Anchor, t) # r THEN "open"
            ELSE IF t \in gap THEN gap_kind ELSE "rock"]

InitMaps ==
    UNION {{RingMap(r, g, len, "open") : g \in 0 .. (RingLen(r) - 1), len \in 0 .. MaxGap}
           : r \in MapRings}
    \cup {RingMap(r, 0, len, "nobuild") : r \in MapRings, len \in 1 .. MaxGap}
    \cup {[t \in MapTiles |-> "open"]}

Init ==
    /\ world \in InitMaps
    /\ pylons = {}
    /\ reference \in {<<0, 0>>, <<MapSize - 1, Anchor[2]>>}
    /\ initial_cannon = Anchor
    /\ initial_xbound = <<Max(0, Anchor[1] - WINDOW_REACH),
                          Min(MapSize, Anchor[1] + WINDOW_REACH)>>
    /\ initial_ybound = <<Max(0, Anchor[2] - WINDOW_REACH),
                          Min(MapSize, Anchor[2] + WINDOW_REACH)>>
    /\ basic_cannon_grid = get_walling_grid
    /\ valid_blocks = << >>
    /\ invalid_blocks = << >>
    /\ current_walling_path = << >>
    /\ wall_start_point = << >>
    /\ next_building = NoBuilding
    /\ tick = NoTick("init")

\* the heights of the pathable points of the anchor's region
region_terrain_height ==
    {terrain_height_grid[t] :
        t \in {u \in DOMAIN world :
                  /\ terrain_height_grid[u] = terrain_height_grid[initial_cannon]
                  /\ get_pyastar_grid[u] = 1}}

\* update() without the sealed test
update_recommendation_no_oracle(start_point, basic_grid, blocks, non_blocks, walling_path) ==
    LET location == IF walling_path # << >>
                    THEN get_next_walling_position(blocks, non_blocks, walling_path)
                    ELSE << >>
    IN  [oracle_called |-> FALSE,
         sealed |-> FALSE,
         selected |-> location,
         emitted |-> IF location # << >> THEN "pylon" ELSE "none",
         building |->
            IF location # << >>
            THEN [type_id |-> "PYLON", location |-> location,
                  final_placement |->
                      placement_would_complete_wall(start_point, basic_grid, location)]
            ELSE NoBuilding]

\* update() with the test of wall_is_finished inverted
update_recommendation_inverted(start_point, basic_grid, blocks, non_blocks, walling_path) ==
    LET sealed == /\ walling_path # << >>
                  /\ wall_is_finished(start_point, initial_cannon, basic_grid)
        location == IF walling_path # << >> /\ sealed
                    THEN get_next_walling_position(blocks, non_blocks, walling_path)
                    ELSE << >>
    IN  [oracle_called |-> walling_path # << >>,
         sealed |-> sealed,
         selected |-> location,
         emitted |-> IF walling_path # << >> /\ ~sealed THEN "cannon"
                     ELSE IF location # << >> THEN "pylon" ELSE "none",
         building |->
            IF walling_path # << >> /\ ~sealed
            THEN [type_id |-> "PHOTONCANNON", location |-> initial_cannon,
                  final_placement |-> FALSE]
            ELSE IF location # << >>
            THEN [type_id |-> "PYLON", location |-> location,
                  final_placement |->
                      placement_would_complete_wall(start_point, basic_grid, location)]
            ELSE NoBuilding]

(***************************************************************************)
(* CannonPlacement.update, from "if self.current_walling_path:" on: what   *)
(* the tick decides and writes (building = NoBuilding: nothing written).   *)
(***************************************************************************)
update_recommendation(start_point, basic_grid, blocks, non_blocks, walling_path) ==
    LET sealed == /\ walling_path # << >>
                  /\ wall_is_finished(start_point, initial_cannon, basic_grid)
        location == IF walling_path # << >> /\ ~sealed
                    THEN get_next_walling_position(blocks, non_blocks, walling_path)
                    ELSE << >>
    IN  [oracle_called |-> walling_path # << >>,
         sealed |-> sealed,
         selected |-> location,
         emitted |-> IF sealed THEN "cannon"
                     ELSE IF location # << >> THEN "pylon" ELSE "none",
         building |->
            IF sealed
            THEN [type_id |-> "PHOTONCANNON", location |-> initial_cannon,
                  final_placement |-> FALSE]
            ELSE IF location # << >>
            THEN [type_id |-> "PYLON", location |-> location,
                  final_placement |->
                      placement_would_complete_wall(start_point, basic_grid, location)]
            ELSE NoBuilding]

(***************************************************************************)
(* The planner's flags self.calculate_next_pylon and                       *)
(* self.recalculate_wall_path: set to True in __init__ and assigned        *)
(* nowhere else in the program.                                            *)
(***************************************************************************)
calculate_next_pylon == TRUE

recalculate_wall_path == TRUE

\* update() caching whatever find_wall_path returned
cache_walling_path_always(cached, possible_path) == possible_path

\* if possible_path := self.find_wall_path(self.initial_cannon):
\*     self.current_walling_path = possible_path
cache_walling_path(cached, possible_path) ==
    IF possible_path # << >> THEN possible_path ELSE cached

\* find_wall_path writing to self.basic_cannon_grid itself
copy_written_aliased(original, written) == written

\* cannon_grid = self.basic_cannon_grid.copy(): the planner's grid after
\* find_wall_path has written the blacklist and the weights to cannon_grid
copy_written(original, written) == original

\* a tick that does not call find_wall_path
NoSearch ==
    [start |-> wall_start_point, grid |-> << >>, start_searched |-> FALSE,
     pathfinder_called |-> FALSE, path |-> << >>]

(***************************************************************************)
(* CannonPlacement.update.  tick records what the call did: whether it ran *)
(* the convolution, searched a start tile, called the pathfinder in        *)
(* find_wall_path and got a walk, what the oracle said, what was selected  *)
(* and written, and whether the call before it was the previous step       *)
(* (repeat: nothing happened in the game between the two calls).           *)
(***************************************************************************)
Update ==
    /\ \E maps \in {IF calculate_next_pylon
                    THEN perform_convolutions(initial_xbound, initial_ybound,
                                              region_terrain_height, get_pyastar_grid)
                    ELSE <<valid_blocks, invalid_blocks>>} :
          /\ valid_blocks' = maps[1]
          /\ invalid_blocks' = maps[2]
    /\ \E fresh \in {Table(IF calculate_next_pylon
                            THEN generate_basic_cannon_grid(initial_cannon)
                            ELSE basic_cannon_grid)} :
       \E found \in {IF /\ calculate_next_pylon
                        /\ (current_walling_path = << >> \/ recalculate_wall_path)
                     THEN find_wall_path(initial_cannon, wall_start_point, fresh,
                                         valid_blocks', invalid_blocks')
                     ELSE NoSearch} :
       /\ basic_cannon_grid' = IF found.grid = << >> THEN fresh
                               ELSE copy_written(fresh, found.grid)
       /\ wall_start_point' = found.start
       /\ current_walling_path' = cache_walling_path(current_walling_path, found.path)
       /\ \E decided \in {update_recommendation(wall_start_point', basic_cannon_grid',
                                                 valid_blocks', invalid_blocks',
                                                 current_walling_path')} :
             /\ next_building' = IF decided.building = NoBuilding THEN next_building
                                 ELSE decided.building
             /\ tick' = [op |-> "update", oracle_called |-> decided.oracle_called,
                         sealed |-> decided.sealed, selected |-> decided.selected,
                         emitted |-> decided.emitted,
                         convolved |-> calculate_next_pylon,
                         start_searched |-> found.start_searched,
                         pathfinder_called |-> found.pathfinder_called,
                         path_found |-> found.path # << >>,
                         walk |-> found.path,
                         repeat |-> tick.op = "update"]
    /\ UNCHANGED <<world, pylons, reference, initial_cannon, initial_xbound,
                   initial_ybound>>

\* the game lets a 2x2 structure stand on pathable, buildable tiles
CanPlace(location) ==
    \A t \in Footprint(location) :
        t \in DOMAIN world /\ placement_grid[t] = 1 /\ get_pyastar_grid[t] = 1

(***************************************************************************)
(* CannonRushManager.place_building: a worker builds the structure that    *)
(* next_building recommends.                                               *)
(***************************************************************************)
BuildPylon ==
    /\ next_building.type_id = "PYLON"
    /\ Cardinality(pylons) < MaxPylons
    /\ CanPlace(next_building.location)
    /\ world' = [t \in DOMAIN world |->
                    IF t \in Footprint(next_building.location) THEN "pylon"
                    ELSE world[t]]
    /\ pylons' = pylons \cup {next_building.location}
    /\ tick' = NoTick("game")
    /\ UNCHANGED <<reference, initial_cannon, initial_xbound, initial_ybound,
                   basic_cannon_grid, valid_blocks, invalid_blocks,
                   current_walling_path, wall_start_point, next_building>>

BuildCannon ==
    /\ next_building.type_id = "PHOTONCANNON"
    /\ CanPlace(next_building.location)
    /\ world' = [t \in DOMAIN world |->
                    IF t \in Footprint(next_building.location) THEN "cannon"
                    ELSE world[t]]
    /\ tick' = NoTick("game")
    /\ UNCHANGED <<pylons, reference, initial_cannon, initial_xbound,
                   initial_ybound, basic_cannon_grid, valid_blocks,
                   invalid_blocks, current_walling_path, wall_start_point,
                   next_building>>

\* a pylon is cancelled (CannonRushManager.cancel_pylons) or destroyed by the
\* opponent: its tiles are open ground again
DestroyPylon ==
    \E p \in pylons :
        /\ world' = [t \in DOMAIN world |->
                        IF t \in Footprint(p) THEN "open" ELSE world[t]]
        /\ pylons' = pylons \ {p}
        /\ tick' = NoTick("game")
        /\ UNCHANGED <<reference, initial_cannon, initial_xbound,
                       initial_ybound, basic_cannon_grid, valid_blocks,
                       invalid_blocks, current_walling_path, wall_start_point,
                       next_building>>

Next == Update \/ BuildPylon \/ BuildCannon \/ DestroyPylon

Spec == Init /\ [][Next]_vars


(***************************************************************************)
(* Specification SpecStart: calculate_start_point on bounded inputs.  The  *)
(* grid is np.inf everywhere but on a few tiles, which carry each of the   *)
(* weights the planner writes (1, 100, 200, np.inf): the blacklisted tile, *)
(* tiles as near and nearer to the anchor, tiles near the edge of the disk *)
(* and a tile outside it.                                                  *)
(***************************************************************************)
StartTiles == {<<4, 8>>, <<8, 4>>, <<6, 9>>, <<9, 6>>, <<0, 1>>, <<0, 0>>}

StartWeights ==
    {terrain_weight, blocking_building_weight, non_blocking_building_weight, INF}

InitStart ==
    /\ world = [t \in (0 .. (MapSize - 1)) \X (0 .. (MapSize - 1)) |-> "open"]
    /\ pylons = {}
    /\ reference = <<0, 0>>
    /\ initial_cannon = <<6, 6>>
    /\ initial_xbound = <<0, MapSize>>
    /\ initial_ybound = <<0, MapSize>>
    /\ \E weights \in [StartTiles -> StartWeights] :
          basic_cannon_grid = [t \in DOMAIN world |->
                                  IF t \in StartTiles THEN weights[t] ELSE INF]
    /\ valid_blocks = << >>
    /\ invalid_blocks = << >>
    /\ current_walling_path = << >>
    /\ wall_start_point = << >>
    /\ next_building = NoBuilding
    /\ tick = NoTick("input")

\* self.wall_start_point = self.calculate_start_point(self.initial_cannon,
\* cannon_grid, {(89, 138)})
FindStart ==
    /\ tick.op = "input"
    /\ wall_start_point' = calculate_start_point(initial_cannon, basic_cannon_grid,
                                                 Blacklist)
    /\ tick' = NoTick("start")
    /\ UNCHANGED <<world, pylons, reference, initial_cannon, initial_xbound,
                   initial_ybound, basic_cannon_grid, valid_blocks, invalid_blocks,
                   current_walling_path, next_building>>

NextStart == FindStart

SpecStart == InitStart /\ [][NextStart]_vars

(***************************************************************************)
(* Specification SpecTwice: perform_convolutions called twice in a row on  *)
(* the same window, as two consecutive update() calls do.  The windows are *)
(* the all-open windows of SpecConv and the window of the candidate (2, 2) *)
(* with every 0/1 pattern of the two middle rows of its neighbourhood.     *)
(***************************************************************************)
MiddleRows == {t \in Block : t[2] \in {1, 2}}

InitMiddle ==
    /\ initial_xbound = <<0, ConvWin>>
    /\ initial_ybound = <<0, ConvWin>>
    /\ initial_cannon = <<31, 99>>
    /\ \E obstructed \in SUBSET MiddleRows :
          world = [t \in WindowTiles(initial_xbound, initial_ybound) |->
                      IF t \in obstructed THEN ObstructionKind(t) ELSE "open"]

InitTwice ==
    /\ InitOpen \/ InitMiddle
    /\ pylons = {}
    /\ reference = <<0, 0>>
    /\ basic_cannon_grid = << >>
    /\ valid_blocks = << >>
    /\ invalid_blocks = << >>
    /\ current_walling_path = << >>
    /\ wall_start_point = << >>
    /\ next_building = NoBuilding
    /\ tick = NoTick("input")

\* the same call in the next update(): calculate_next_pylon is still True
ConvolveAgain ==
    /\ tick.op = "convolved"
    /\ LET maps == perform_convolutions(initial_xbound, initial_ybound,
                                        {HIGH_GROUND}, get_pyastar_grid)
       IN  /\ valid_blocks' = maps[1]
           /\ invalid_blocks' = maps[2]
    /\ tick' = NoTick("reconvolved")
    /\ UNCHANGED <<world, pylons, reference, initial_cannon, initial_xbound,
                   initial_ybound, basic_cannon_grid, current_walling_path,
                   wall_start_point, next_building>>

NextTwice == Convolve \/ ConvolveAgain

SpecTwice == InitTwice /\ [][NextTwice]_vars

(***************************************************************************)
(* Specification SpecLoad: CannonPlacement.__init__ reading                *)
(* hamming_weight_lookups.json, and a later lookup of a score in the table *)
(* it built.  The file is absent, is no JSON text, is a JSON array of the  *)
(* 4096 counts, or is a JSON object whose keys are the decimal numerals of *)
(* 0..4095 less a few, possibly with one key that is no numeral and        *)
(* possibly with values that are no counts.                                *)
(***************************************************************************)
ScoreSamples == {0, 832, 2215, 4095}

AllScores == 0 .. 4095

LookupFiles ==
    {[kind |-> k, keys |-> {}, other_key |-> FALSE, counts |-> FALSE] :
        k \in {"missing", "text"}}
    \cup {[kind |-> "array", keys |-> {}, other_key |-> FALSE, counts |-> TRUE]}
    \cup {[kind |-> "object", keys |-> AllScores \ missing, other_key |-> o,
           counts |-> c] :
             missing \in SUBSET ScoreSamples, o \in BOOLEAN, c \in BOOLEAN}

\* with open(...) as f: hamming_lookup = json.load(f);
\* self.hamming_lookup = {int(v): hamming_lookup[v] for v in hamming_lookup}
load_hamming_lookup(file) ==
    CASE file.kind = "missing" ->
           [raised |-> "FileNotFoundError", keys |-> {}, counts |-> FALSE]
      [] file.kind = "text" ->
           [raised |-> "JSONDecodeError", keys |-> {}, counts |-> FALSE]
      [] file.kind = "array" ->
           \* v runs over the counts: int(v) is the key, hamming_lookup[v]
           \* the entry of the array at index v
           [raised |-> "none", keys |-> {hamming_lookup(k) : k \in AllScores},
            counts |-> TRUE]
      [] OTHER ->
           IF file.other_key
           THEN [raised |-> "ValueError", keys |-> {}, counts |-> FALSE]
           ELSE [raised |-> "none", keys |-> file.keys, counts |-> file.counts]

InitLoad ==
    /\ world = << >>
    /\ pylons = {}
    /\ reference = <<0, 0>>
    /\ initial_cannon = <<31, 99>>
    /\ initial_xbound = <<11, 51>>
    /\ initial_ybound = <<79, 119>>
    /\ basic_cannon_grid = << >>
    /\ valid_blocks = << >>
    /\ invalid_blocks = << >>
    /\ current_walling_path = << >>
    /\ wall_start_point = << >>
    /\ next_building = NoBuilding
    /\ \E file \in LookupFiles :
          tick = [op |-> "file", file |-> file, planner |-> "none",
                  table |-> [raised |-> "none", keys |-> {}, counts |-> FALSE],
                  score |-> 0, lookup |-> "none"]

\* CannonPlacement.__init__: an exception leaves no planner object
Construct ==
    /\ tick.op = "file"
    /\ \E table \in {load_hamming_lookup(tick.file)} :
          tick' = [tick EXCEPT !.op = "init",
                               !.planner = IF table.raised = "none"
                                           THEN "constructed" ELSE "failed",
                               !.table = table]
    /\ UNCHANGED <<world, pylons, reference, initial_cannon, initial_xbound,
                   initial_ybound, basic_cannon_grid, valid_blocks, invalid_blocks,
                   current_walling_path, wall_start_point, next_building>>

\* WEIGHT: self.hamming_lookup[d[pos]] for a candidate of score d[pos]
LookUpWeight ==
    /\ tick.op = "init"
    /\ tick.planner = "constructed"
    /\ \E score \in ScoreSamples :
          tick' = [tick EXCEPT !.op = "lookup",
                               !.score = score,
                               !.lookup = IF score \in tick.table.keys
                                          THEN "weight" ELSE "KeyError"]
    /\ UNCHANGED <<world, pylons, reference, initial_cannon, initial_xbound,
                   initial_ybound, basic_cannon_grid, valid_blocks, invalid_blocks,
                   current_walling_path, wall_start_point, next_building>>

NextLoad == Construct \/ LookUpWeight

SpecLoad == InitLoad /\ [][NextLoad]_vars

(***************************************************************************)
(* bot/tools/new_cannon_placement.py, class BuildingPlacement: the         *)
(* refactored convolution, which takes the planned buildings as            *)
(* avoid_positions.                                                        *)
(***************************************************************************)
\* BuildingPlacement.generate_convolution_grid: the grid of the window as
\* CannonPlacement builds it, then modify_two_by_two(convolution_grid, pos, 0)
\* for every avoid position strictly inside the window; pos indexes the
\* cells of the grid as it is, without x_min and y_min taken off
BuildingPlacement_generate_convolution_grid(x_bound, y_bound, terrain_height, pathing_grid, avoid_positions) ==
    LET x_min == x_bound[1]
        x_max == x_bound[2]
        y_min == y_bound[1]
        y_max == y_bound[2]
        cleared(i, j) ==
            /\ i \in x_min .. (x_max - 1)
            /\ j \in y_min .. (y_max - 1)
            /\ pathing_grid[<<i, j>>] = 1
            /\ placement_grid[<<i, j>>] = 1
            /\ terrain_height_grid[<<i, j>>] \in terrain_height
        avoided == UNION {Footprint(pos) :
                            pos \in {q \in avoid_positions :
                                        /\ x_min < q[1] /\ q[1] < x_max
                                        /\ y_min < q[2] /\ q[2] < y_max}}
    IN  [c \in (0 .. (x_max - x_min)) \X (0 .. (y_max - y_min)) |->
            IF c \in avoided THEN 0
            ELSE IF cleared(c[1] + x_min, c[2] + y_min) THEN 0 ELSE 1]

\* BuildingPlacement.perform_convolutions
BuildingPlacement_perform_convolutions(x_bound, y_bound, terrain_height, pathing_grid, avoid_positions) ==
    LET grid == Table(BuildingPlacement_generate_convolution_grid(
                          x_bound, y_bound, terrain_height, pathing_grid,
                          avoid_positions))
        placements == Table([p \in CandidatePoints(x_bound, y_bound) |->
                                convolve2d(grid, p[1] - x_bound[1] - 2,
                                           p[2] - y_bound[1] - 2)])
        usable == {p \in DOMAIN placements : ~(placements[p] >= 4096)}
        blocking == {p \in usable : ~NonBlocking(placements[p])}
    IN  << [p \in blocking |-> placements[p]],
           [p \in usable \ blocking |-> placements[p]] >>

(***************************************************************************)
(* Specification SpecAvoid: BuildingPlacement.perform_convolutions on the  *)
(* all-open windows of SpecConv, the one planned building standing where   *)
(* CannonPlacement has its anchor.  The windows start at 0 or 1, where     *)
(* every cell the avoid position indexes is a cell of the grid.            *)
(***************************************************************************)
InitAvoid ==
    /\ InitOpen
    /\ pylons = {}
    /\ reference = <<0, 0>>
    /\ basic_cannon_grid = << >>
    /\ valid_blocks = << >>
    /\ invalid_blocks = << >>
    /\ current_walling_path = << >>
    /\ wall_start_point = << >>
    /\ next_building = NoBuilding
    /\ tick = NoTick("input")

ConvolveAvoiding ==
    /\ tick.op = "input"
    /\ LET maps == BuildingPlacement_perform_convolutions(
                       initial_xbound, initial_ybound, {HIGH_GROUND},
                       get_pyastar_grid, {initial_cannon})
       IN  /\ valid_blocks' = maps[1]
           /\ invalid_blocks' = maps[2]
    /\ tick' = NoTick("avoided")
    /\ UNCHANGED <<world, pylons, reference, initial_cannon, initial_xbound,
                   initial_ybound, basic_cannon_grid, current_walling_path,
                   wall_start_point, next_building>>

NextAvoid == ConvolveAvoiding

SpecAvoid == InitAvoid /\ [][NextAvoid]_vars

(***************************************************************************)
(* Specification SpecDestructible: the planner on a map whose start tile   *)
(* is a destructible obstacle (destructible rocks, a mineral field, a      *)
(* structure), which the game can remove: the tile is open ground from     *)
(* then on and get_walling_grid, read anew by every update(), says so.     *)
(***************************************************************************)
ClearStartTile ==
    /\ wall_start_point # << >>
    /\ world[wall_start_point] = "rock"
    /\ world' = [world EXCEPT ![wall_start_point] = "open"]
    /\ tick' = NoTick("game")
    /\ UNCHANGED <<pylons, reference, initial_cannon, initial_xbound,
                   initial_ybound, basic_cannon_grid, valid_blocks,
                   invalid_blocks, current_walling_path, wall_start_point,
                   next_building>>

NextDestructible == Next \/ ClearStartTile

\* the maps of Spec, the enemy ramp at the map's corner
InitDestructible == Init /\ reference = <<0, 0>>

SpecDestructible == InitDestructible /\ [][NextDestructible]_vars

(***************************************************************************)
(* bot/managers/cannon_rush_manager.py: CannonRushManager.place_building.  *)
(* A worker stands anywhere on the map; positions are counted in quarters  *)
(* of a tile, so that the offset 0.5 is the integer 2.                     *)
(***************************************************************************)
QUARTER == 4

Quarters(point) == <<QUARTER * point[1], QUARTER * point[2]>>

HALF_TILE == 2

\* worker_on_correct_side_of_wall with x_offset = y_offset = 0.0
worker_on_correct_side_of_wall_no_offset(worker, interior_point, final_placement) ==
    LET between(w, one, two) ==
            IF one > two THEN two < w /\ w < one ELSE one < w /\ w < two
    IN  /\ between(worker[1], interior_point[1], final_placement[1])
        /\ between(worker[2], interior_point[2], final_placement[2])

\* CannonRushManager.worker_on_correct_side_of_wall, the three positions in
\* quarters of a tile
worker_on_correct_side_of_wall(worker, interior_point, final_placement) ==
    LET x_offset == IF interior_point[1] = final_placement[1] THEN HALF_TILE ELSE 0
        y_offset == IF interior_point[2] = final_placement[2] THEN HALF_TILE ELSE 0
        x_one == interior_point[1] + x_offset
        x_two == final_placement[1] - x_offset
        y_one == interior_point[2] + y_offset
        y_two == final_placement[2] - y_offset
        between(w, one, two) ==
            IF one > two THEN two < w /\ w < one ELSE one < w /\ w < two
    IN  /\ between(worker[1], x_one, x_two)
        /\ between(worker[2], y_one, y_two)

\* cy_sorted_by_distance_to(units, position)[0]: the first of the units
\* nearest the position
NearestWorker(worker_units, position) ==
    LET d(i) == SquaredDistance(worker_units[i].position, position)
        first == CHOOSE i \in DOMAIN worker_units :
                    \A j \in DOMAIN worker_units : d(i) < d(j) \/ (d(i) = d(j) /\ i <= j)
    IN  worker_units[first]

\* CannonRushManager.place_building: the order given and the tag returned
place_building(building, worker_units) ==
    LET used_worker ==
            NearestWorker(worker_units,
                          IF building.final_placement THEN Quarters(initial_cannon)
                          ELSE Quarters(building.location))
    IN  IF \/ used_worker.position = Quarters(initial_cannon)
           \/ worker_on_correct_side_of_wall(used_worker.position,
                                             Quarters(initial_cannon),
                                             Quarters(building.location))
        THEN [returned |-> used_worker.tag,
              orders |-> {[worker |-> used_worker.tag, order |-> "build",
                           structure_type |-> building.type_id,
                           pos |-> Quarters(building.location)]}]
        ELSE [returned |-> used_worker.tag,
              orders |-> {[worker |-> used_worker.tag, order |-> "move",
                           structure_type |-> "None",
                           pos |-> Quarters(initial_cannon)]}]

(***************************************************************************)
(* Specification SpecPlace: place_building for two workers, each on the    *)
(* anchor, a quarter of a tile off it, or a tile away along either axis,   *)
(* and a Pylon location above, right of, diagonal to or below the anchor.  *)
(***************************************************************************)
PlaceAnchor == <<2, 2>>

WorkerCoordinates == {7, 8, 12}

PlaceLocations == {<<2, 4>>, <<4, 2>>, <<4, 4>>, <<0, 0>>}

InitPlace ==
    /\ world = << >>
    /\ pylons = {}
    /\ reference = <<0, 0>>
    /\ initial_cannon = PlaceAnchor
    /\ initial_xbound = <<0, 4>>
    /\ initial_ybound = <<0, 4>>
    /\ basic_cannon_grid = << >>
    /\ valid_blocks = << >>
    /\ invalid_blocks = << >>
    /\ current_walling_path = << >>
    /\ wall_start_point = << >>
    /\ \E location \in PlaceLocations, final \in BOOLEAN :
          next_building = [type_id |-> "PYLON", location |-> location,
                           final_placement |-> final]
    /\ \E p1, p2 \in WorkerCoordinates \X WorkerCoordinates :
          tick = [op |-> "input",
                  worker_units |-> << [tag |-> 1, position |-> p1],
                                      [tag |-> 2, position |-> p2] >>,
                  returned |-> 0, orders |-> {}]

\* used_worker_tags.add(self.place_building(next_building, cannon_workers))
PlaceBuilding ==
    /\ tick.op = "input"
    /\ \E placed \in {place_building(next_building, tick.worker_units)} :
          tick' = [tick EXCEPT !.op = "placed", !.returned = placed.returned,
                               !.orders = placed.orders]
    /\ UNCHANGED <<world, pylons, reference, initial_cannon, initial_xbound,
                   initial_ybound, basic_cannon_grid, valid_blocks, invalid_blocks,
                   current_walling_path, wall_start_point, next_building>>

NextPlace == PlaceBuilding

SpecPlace == InitPlace /\ [][NextPlace]_vars
(***************************************************************************)
(* Properties of the convolution and the classification (SpecConv).        *)
(***************************************************************************)
\* the 0/1 obstruction grid of the current window, by tile of the map
ObstructionGrid ==
    Table(generate_convolution_grid(initial_xbound, initial_ybound, {HIGH_GROUND},
                                    get_pyastar_grid))

\* grid says the tile t of the map is obstructed
Obstructed(grid, t) ==
    grid[<<t[1] - initial_xbound[1], t[2] - initial_ybound[1]>>] = 1

\* the score of a candidate point of the current window: placements[x][y] of
\* the point (x + x_min + 2, y + y_min + 2)
Score(grid, p) ==
    convolve2d(grid, p[1] - initial_xbound[1] - 2, p[2] - initial_ybound[1] - 2)

Candidates == CandidatePoints(initial_xbound, initial_ybound)

InAMap(p) == p \in DOMAIN valid_blocks \/ p \in DOMAIN invalid_blocks

\* the ring of p, its tiles in the order A, B, ..., L
Ring(p) ==
    << <<p[1] - 2, p[2] + 1>>, <<p[1] - 1, p[2] + 1>>, <<p[1], p[2] + 1>>,
       <<p[1] + 1, p[2] + 1>>,
       <<p[1] - 2, p[2]>>, <<p[1] + 1, p[2]>>,
       <<p[1] - 2, p[2] - 1>>, <<p[1] + 1, p[2] - 1>>,
       <<p[1] - 2, p[2] - 2>>, <<p[1] - 1, p[2] - 2>>, <<p[1], p[2] - 2>>,
       <<p[1] + 1, p[2] - 2>> >>

RECURSIVE RingSum(_, _, _)
RingSum(grid, p, n) ==
    IF n = 0 THEN 0
    ELSE (IF Obstructed(grid, Ring(p)[n]) THEN 2^(n - 1) ELSE 0) + RingSum(grid, p, n - 1)

\* C1: a candidate scores at least 4096 exactly when a tile of its own 2x2
\* footprint is obstructed, whatever its ring, and such a candidate is a key
\* of neither map.
C1_FootprintInvalid ==
    tick.op = "convolved" =>
        \A grid \in {ObstructionGrid} : \A p \in Candidates :
            /\ (Score(grid, p) >= 4096) <=> (\E t \in Footprint(p) : Obstructed(grid, t))
            /\ (\E t \in Footprint(p) : Obstructed(grid, t)) => ~InAMap(p)

\* C1 witness: a candidate with an obstructed footprint tile and one with a
\* free footprint, after the classification
C1_Witness ==
    /\ tick.op = "convolved"
    /\ \E grid \in {ObstructionGrid}, p \in Candidates :
          /\ \E t \in Footprint(p) : Obstructed(grid, t)
          /\ \E n \in 1 .. 12 : ~Obstructed(grid, Ring(p)[n])
          /\ ~InAMap(p)
    /\ \E p \in Candidates : InAMap(p)

\* C2: with a free footprint the score is the sum of the weights 2^0..2^11 of
\* the obstructed ring tiles in the layout A B C D / E F / G H / I J K L, so
\* it lies in 0..4095 and its bits tell which ring tiles are obstructed.
C2_RingBitmask ==
    tick.op = "convolved" =>
        \A grid \in {ObstructionGrid} : \A p \in Candidates :
            (\A t \in Footprint(p) : ~Obstructed(grid, t)) =>
                /\ Score(grid, p) = RingSum(grid, p, 12)
                /\ Score(grid, p) \in 0 .. 4095
                /\ \A n \in 1 .. 12 :
                      (Bit(Score(grid, p), n - 1) = 1) <=> Obstructed(grid, Ring(p)[n])

\* C2 witness: a free footprint with some ring tiles obstructed and some not,
\* the ring not symmetric under a half turn
C2_Witness ==
    /\ tick.op = "convolved"
    /\ \E grid \in {ObstructionGrid}, p \in Candidates :
          /\ \A t \in Footprint(p) : ~Obstructed(grid, t)
          /\ Obstructed(grid, Ring(p)[1])
          /\ ~Obstructed(grid, Ring(p)[12])
          /\ Score(grid, p) = A + F + J

\* the ring signature k turned by 90 degrees: A->D, B->F, C->H, D->L, E->C,
\* F->K, G->B, H->J, I->A, J->E, K->G, L->I
RotateTarget == <<3, 5, 7, 11, 2, 10, 1, 9, 0, 4, 6, 8>>

RECURSIVE RotateBits(_, _)
RotateBits(k, n) ==
    IF n = 0 THEN 0
    ELSE Bit(k, n - 1) * 2^(RotateTarget[n]) + RotateBits(k, n - 1)

Rotate90(k) == RotateBits(k, 12)

\* C3: INVALID_BLOCK is closed under the quarter turn of the ring: the
\* signature k of a classified candidate is in the set exactly when the
\* turned signature is.  (Every k in 0..4095 is the score of the candidate
\* (2, 2) on some input.)
C3_RotationClosed ==
    tick.op = "convolved" =>
        \A grid \in {ObstructionGrid} : \A p \in Candidates :
            InAMap(p) =>
                ((Score(grid, p) \in INVALID_BLOCK)
                    <=> (Rotate90(Score(grid, p)) \in INVALID_BLOCK))

\* C4: every candidate is in exactly one class: score >= 4096, in neither
\* map; score in INVALID_BLOCK, key of the non-blocking map only; any other
\* score, key of the blocking map only; a map's value is the score.
C4_ThreeClasses ==
    tick.op = "convolved" =>
        /\ DOMAIN valid_blocks \subseteq Candidates
        /\ DOMAIN invalid_blocks \subseteq Candidates
        /\ DOMAIN valid_blocks \cap DOMAIN invalid_blocks = {}
        /\ \A grid \in {ObstructionGrid} : \A p \in Candidates :
           \A score \in {Score(grid, p)} :
              /\ score >= 4096 => ~InAMap(p)
              /\ (score < 4096 /\ score \in INVALID_BLOCK) =>
                    /\ p \in DOMAIN invalid_blocks
                    /\ p \notin DOMAIN valid_blocks
                    /\ invalid_blocks[p] = score
              /\ (score < 4096 /\ score \notin INVALID_BLOCK) =>
                    /\ p \in DOMAIN valid_blocks
                    /\ p \notin DOMAIN invalid_blocks
                    /\ valid_blocks[p] = score

\* C4 witness: one input with a candidate of each class
C4_Witness ==
    /\ tick.op = "convolved"
    /\ \E grid \in {ObstructionGrid}, p \in Candidates :
          Score(grid, p) >= 4096 /\ ~InAMap(p)
    /\ DOMAIN valid_blocks # {}
    /\ DOMAIN invalid_blocks # {}

\* every tile of the window is pathable, buildable and at the region's height
WindowOpen ==
    \A t \in WindowTiles(initial_xbound, initial_ybound) : world[t] = "open"

AnchorStrictlyInside ==
    /\ initial_xbound[1] < initial_cannon[1] /\ initial_cannon[1] < initial_xbound[2]
    /\ initial_ybound[1] < initial_cannon[2] /\ initial_cannon[2] < initial_ybound[2]

NearAnchor(p) ==
    Abs(p[1] - initial_cannon[1]) <= 1 /\ Abs(p[2] - initial_cannon[2]) <= 1

\* C6: on an all-open window with the anchor strictly inside, the candidates
\* scoring at least 4096 are exactly those within one tile of the anchor on
\* both axes (their footprint shares a tile with the anchor's).
C6_OpenWindowAnchor ==
    (tick.op = "convolved" /\ WindowOpen /\ AnchorStrictlyInside) =>
        \A grid \in {ObstructionGrid} : \A p \in Candidates :
            /\ (Score(grid, p) >= 4096) <=> NearAnchor(p)
            /\ NearAnchor(p) <=> (Footprint(p) \cap Footprint(initial_cannon) # {})
            /\ ~NearAnchor(p) => InAMap(p)

\* C6 witness: an all-open window, the anchor strictly inside, with a
\* candidate on each side of 4096
C6_Witness ==
    /\ tick.op = "convolved" /\ WindowOpen /\ AnchorStrictlyInside
    /\ \E grid \in {ObstructionGrid}, p \in Candidates :
          Score(grid, p) >= 4096 /\ NearAnchor(p)
    /\ \E grid \in {ObstructionGrid}, p \in Candidates :
          Score(grid, p) < 4096 /\ InAMap(p)


\* the tiles under the 4x4 kernel at the candidate point p: its footprint
\* and its ring
Neighbourhood(p) == ((p[1] - 2) .. (p[1] + 1)) \X ((p[2] - 2) .. (p[2] + 1))

\* C18: every key of the blocking and of the non-blocking map lies in
\* [x_min + 2, x_max - 1] x [y_min + 2, y_max - 1], and the maps are computed
\* from tiles of the window alone: the cells under the kernel of a key are
\* cells of the convolution grid, and a cell that belongs to no tile of the
\* window holds the constant 1 and no value read from the game.
C18_KeysInsideWindow ==
    tick.op = "convolved" =>
        \A grid \in {ObstructionGrid} :
            \A p \in DOMAIN valid_blocks \cup DOMAIN invalid_blocks :
                /\ initial_xbound[1] + 2 <= p[1] /\ p[1] <= initial_xbound[2] - 1
                /\ initial_ybound[1] + 2 <= p[2] /\ p[2] <= initial_ybound[2] - 1
                /\ \A t \in Neighbourhood(p) :
                      /\ <<t[1] - initial_xbound[1], t[2] - initial_ybound[1]>> \in DOMAIN grid
                      /\ t \notin DOMAIN world => Obstructed(grid, t)

\* C18 witness: a window that does not start at the origin, with a key in
\* its lowest corner and a key in its highest corner, whose ring lies on the
\* row and the column beyond the last tiles of the window
C18_Witness ==
    /\ tick.op = "convolved"
    /\ initial_xbound[1] = 1 /\ initial_ybound[1] = 1
    /\ InAMap(<<initial_xbound[1] + 2, initial_ybound[1] + 2>>)
    /\ InAMap(<<initial_xbound[2] - 1, initial_ybound[2] - 1>>)
    /\ <<initial_xbound[2], initial_ybound[2]>> \notin DOMAIN world

\* C30: the cells of index x_max - x_min and y_max - y_min of the
\* convolution grid are never cleared: every candidate with x = x_max - 1
\* has the bits D, F, H and L in its score, and every candidate with
\* y = y_max - 1 the bits A, B, C and D.
C30_LastRowAndColumnObstructed ==
    tick.op = "convolved" =>
        \A grid \in {ObstructionGrid} :
            /\ \A c \in DOMAIN grid :
                  (\/ c[1] = initial_xbound[2] - initial_xbound[1]
                   \/ c[2] = initial_ybound[2] - initial_ybound[1]) => grid[c] = 1
            /\ \A p \in Candidates :
                  \A score \in {Score(grid, p)} :
                     /\ p[1] = initial_xbound[2] - 1 =>
                           \A bit \in {D, F, H, L} : (score \div bit) % 2 = 1
                     /\ p[2] = initial_ybound[2] - 1 =>
                           \A bit \in {A, B, C, D} : (score \div bit) % 2 = 1

\* C30 witness: an all-open window; the candidate in its last column and
\* last row scores exactly A + B + C + D + F + H + L and is a key, a
\* candidate away from both scores 0
C30_Witness ==
    /\ tick.op = "convolved"
    /\ WindowOpen /\ ~AnchorStrictlyInside
    /\ initial_xbound[2] - initial_xbound[1] >= 5
    /\ initial_ybound[2] - initial_ybound[1] >= 5
    /\ \A grid \in {ObstructionGrid} :
          /\ Score(grid, <<initial_xbound[2] - 1, initial_ybound[2] - 1>>)
                = A + B + C + D + F + H + L
          /\ Score(grid, <<initial_xbound[1] + 2, initial_ybound[1] + 2>>) = 0
    /\ InAMap(<<initial_xbound[2] - 1, initial_ybound[2] - 1>>)
(***************************************************************************)
(* Properties of the planner (Spec).  tick describes the update() that     *)
(* produced the state; the planner's fields are those it left.             *)
(***************************************************************************)
\* the walk the pathfinder returns on a grid from the cached start tile
OracleWalk(grid) ==
    clockwise_pathfind(wall_start_point, wall_start_point, initial_cannon, grid)

Closed(walk) ==
    walk # << >> /\ walk[1] = wall_start_point /\ walk[Len(walk)] = wall_start_point

\* the candidates' usage of the cached walk, as get_next_walling_position
\* builds it
PylonUsage ==
    evaluate_walling_positions(valid_blocks, invalid_blocks,
                               SeqToSet(current_walling_path))

Selecting == tick.op = "update" /\ tick.oracle_called /\ ~tick.sealed

\* C5: the WEIGHT recorded for a blocking candidate is the number of bits of
\* its ring signature with the corner bits A, D, I, L cleared.
C5_WeightWithoutCorners ==
    Selecting =>
        \A pos \in DOMAIN PylonUsage :
            PylonUsage[pos].blocking =>
                PylonUsage[pos].weight
                    = hamming_lookup(valid_blocks[pos] - CornersOf(valid_blocks[pos]))

\* C7: wall_is_finished reports sealed exactly when the pathfinder returns a
\* closed walk from the start tile to the start tile of fewer than 40 tiles.
C7_SealedIffShortWalk ==
    (tick.op = "update" /\ tick.oracle_called) =>
        (tick.sealed <=>
            /\ Closed(OracleWalk(basic_cannon_grid))
            /\ Len(OracleWalk(basic_cannon_grid)) < 40)

\* C7 witness: the oracle ran and reported sealed on a walk shorter than 40
C7_Witness ==
    /\ tick.op = "update" /\ tick.oracle_called /\ tick.sealed
    /\ Closed(OracleWalk(basic_cannon_grid))
    /\ Len(OracleWalk(basic_cannon_grid)) < 40

Coverage(p) == Cardinality(Footprint(p) \cap SeqToSet(current_walling_path))

AllCandidates == DOMAIN valid_blocks \cup DOMAIN invalid_blocks

\* C9: the location selected has the largest coverage of the WallPath over
\* both maps, at least 1, and among the candidates of that coverage the
\* smallest distance to the reference point; nothing is selected exactly
\* when no candidate covers a tile of the WallPath.
C9_MaxCoverageNearest ==
    Selecting =>
        IF \A q \in AllCandidates : Coverage(q) = 0
        THEN tick.selected = << >>
        ELSE /\ tick.selected \in AllCandidates
             /\ Coverage(tick.selected) >= 1
             /\ \A q \in AllCandidates :
                   /\ Coverage(q) <= Coverage(tick.selected)
                   /\ Coverage(q) = Coverage(tick.selected) =>
                         SquaredDistance(tick.selected, reference)
                             <= SquaredDistance(q, reference)

\* C9 witness: a selection among several candidates of the largest coverage
\* at different distances, a non-blocking one and a blocking one among them
C9_Witness ==
    /\ Selecting
    /\ tick.selected # << >>
    /\ \E q \in AllCandidates :
          /\ Coverage(q) = Coverage(tick.selected)
          /\ SquaredDistance(tick.selected, reference) < SquaredDistance(q, reference)
          /\ SquaredDistance(q, initial_cannon)
                < SquaredDistance(tick.selected, initial_cannon)
    /\ \E q \in AllCandidates : Coverage(q) >= 1 /\ Coverage(q) < Coverage(tick.selected)

AnchorCannon ==
    [type_id |-> "PHOTONCANNON", location |-> initial_cannon,
     final_placement |-> FALSE]

\* C11: a tick writes at most one recommendation: none without a cached
\* walk; the cannon at the anchor, and no pylon, with a cached walk reported
\* sealed; the pylon at the selected location with a cached walk reported not
\* sealed and a location selected.
C11_OneRecommendationPerState ==
    [][tick'.op = "update" =>
          /\ tick'.emitted \in {"none", "cannon", "pylon"}
          /\ current_walling_path' = << >> =>
                /\ tick'.emitted = "none"
                /\ next_building' = next_building
          /\ (current_walling_path' # << >> /\ tick'.sealed) =>
                /\ tick'.emitted = "cannon"
                /\ tick'.selected = << >>
                /\ next_building' = AnchorCannon
          /\ (current_walling_path' # << >> /\ ~tick'.sealed
                 /\ tick'.selected # << >>) =>
                /\ tick'.emitted = "pylon"
                /\ next_building'.type_id = "PYLON"
                /\ next_building'.location = tick'.selected
          /\ tick'.sealed <=>
                /\ current_walling_path' # << >>
                /\ wall_is_finished(wall_start_point', initial_cannon,
                                    basic_cannon_grid')]_vars

\* C11 witness: a sealed tick that writes the cannon over the pylon
\* recommendation of an earlier tick
C11_Witness ==
    /\ tick.op = "update" /\ tick.oracle_called /\ tick.sealed
    /\ tick.emitted = "cannon"
    /\ next_building = AnchorCannon
    /\ pylons # {}

\* the defensive structure stands on the anchor
AnchorStructureExists == world[initial_cannon] = "cannon"

\* C12: in every update() made after the anchor structure exists the planner
\* yields no recommendation, neither the cannon again nor a pylon.
C12_SealedIdempotent ==
    (tick.op = "update" /\ AnchorStructureExists) => tick.emitted = "none"

\* the planner has no cached walk
AwaitingStartPoint == current_walling_path = << >>

\* C13: while no start tile is found, find_wall_path searches one in every
\* tick, does not call the pathfinder and returns no path; update() keeps the
\* walk absent and writes no recommendation; the tick in which the
\* pathfinder returns a walk leaves AwaitingStartPoint.
C13_AwaitingStartPoint ==
    tick.op = "update" =>
        /\ wall_start_point = << >> =>
              /\ tick.start_searched
              /\ ~tick.pathfinder_called
              /\ ~tick.path_found
              /\ AwaitingStartPoint
              /\ ~tick.oracle_called
              /\ tick.emitted = "none"
              /\ next_building = NoBuilding
        /\ tick.pathfinder_called <=> wall_start_point # << >>
        /\ tick.path_found => ~AwaitingStartPoint

\* C13 witness: a second tick in a row without a start tile, the search made
\* again
C13_Witness ==
    /\ tick.op = "update" /\ tick.repeat
    /\ wall_start_point = << >>
    /\ tick.start_searched
    /\ AwaitingStartPoint

\* C14: after a tick in which the pathfinder returned no walk from the start
\* tile chosen, the next tick does not start from that tile again.
C14_DeadStartBlacklisted ==
    [][(/\ tick.op = "update" /\ tick.pathfinder_called /\ ~tick.path_found
        /\ tick'.op = "update")
          => wall_start_point' # wall_start_point]_vars

\* C16: after a tick with a cached walk, not sealed, in which nothing is
\* selected, the planner exposes no recommendation.
C16_NoStaleRecommendation ==
    (tick.op = "update" /\ tick.oracle_called /\ ~tick.sealed
        /\ tick.selected = << >>) => next_building = NoBuilding

\* C17: a tick that follows a tick with nothing changed in between runs
\* neither the convolution nor the search of the WallPath.
C17_CachedTickRecomputesNothing ==
    (tick.op = "update" /\ tick.repeat /\ current_walling_path # << >>) =>
        /\ ~tick.convolved
        /\ ~tick.start_searched
        /\ ~tick.pathfinder_called

\* C19: a structure on a location classified non-blocking does not change
\* the sealed status: for every key p of the non-blocking map the oracle
\* gives the same verdict on the grid and on the grid with p's footprint at
\* np.inf, and no tile of p's footprint lies on the current walling path.
C19_NonBlockingOffPath ==
    (tick.op = "update" /\ wall_start_point # << >>) =>
        \A p \in DOMAIN invalid_blocks :
            /\ wall_is_finished(wall_start_point, initial_cannon, basic_cannon_grid)
                 <=> placement_would_complete_wall(wall_start_point, basic_cannon_grid, p)
            /\ Coverage(p) = 0

C28_RecommendedIsCandidate ==
    (tick.op = "update" /\ tick.emitted = "pylon") =>
        /\ next_building.type_id = "PYLON"
        /\ next_building.location \in AllCandidates
        /\ \A grid \in {Table(generate_convolution_grid(
                                  initial_xbound, initial_ybound,
                                  region_terrain_height, get_pyastar_grid))} :
              \A t \in Footprint(next_building.location) : ~Obstructed(grid, t)
        /\ AnchorStrictlyInside =>
              Footprint(next_building.location) \cap Footprint(initial_cannon) = {}

\* C28 witness: a Pylon recommended next to the anchor's footprint, the
\* anchor strictly inside the window and a pylon already standing
C28_Witness ==
    /\ tick.op = "update" /\ tick.emitted = "pylon"
    /\ AnchorStrictlyInside
    /\ pylons # {}
    /\ \E t \in Footprint(next_building.location), a \in Footprint(initial_cannon) :
          SquaredDistance(t, a) <= 2

\* C29: update() leaves in basic_cannon_grid the inverted walling grid alone:
\* the weights 100 and 200 of the candidates, the blacklist's infinity and
\* the simulated placement's infinity are in copies only, and the oracle's
\* verdict on the planner's grid after a placement was simulated is the
\* verdict it gave before.
C29_GridUntouched ==
    tick.op = "update" =>
        /\ basic_cannon_grid = generate_basic_cannon_grid(initial_cannon)
        /\ \A t \in DOMAIN basic_cannon_grid :
              basic_cannon_grid[t] \in {terrain_weight, INF}
        /\ tick.selected # << >> =>
              wall_is_finished(wall_start_point, initial_cannon, basic_cannon_grid)
                 = tick.sealed

\* C29 witness: the blacklisted tile is an obstacle on the walk; the update()
\* before wrote the blacklist's infinity and found no walk, this one finds
\* the walk over that tile on a grid with both weights, 100 and 200, and
\* simulates the placement it recommends
C29_Witness ==
    /\ tick.op = "update" /\ tick.repeat
    /\ ~tick.start_searched /\ tick.path_found
    /\ tick.emitted = "pylon"
    /\ valid_blocks # << >> /\ invalid_blocks # << >>
    /\ \E b \in Blacklist :
          /\ world[b] = "rock"
          /\ basic_cannon_grid[b] = terrain_weight
          /\ b \in SeqToSet(current_walling_path)

(***************************************************************************)
(* Properties of the start tile (SpecStart).                               *)
(***************************************************************************)
\* the tiles calculate_start_point may return on the grid it is given
EligibleStarts ==
    {t \in DOMAIN basic_cannon_grid :
        /\ SquaredDistance(t, initial_cannon) < 8 * 8
        /\ t \notin Blacklist
        /\ basic_cannon_grid[t] < INF
        /\ basic_cannon_grid[t] < 2}

\* C15: calculate_start_point returns a tile of the disk of radius 8 around
\* the anchor that is not blacklisted and has a finite weight below 2, one
\* of the nearest to the anchor among these; it returns no tile exactly
\* when there is none.
C15_StartPoint ==
    tick.op = "start" =>
        IF EligibleStarts = {} THEN wall_start_point = << >>
        ELSE /\ wall_start_point \in EligibleStarts
             /\ \A q \in EligibleStarts :
                   SquaredDistance(wall_start_point, initial_cannon)
                      <= SquaredDistance(q, initial_cannon)

\* C15 witness: a tile returned although the blacklisted tile and a tile of
\* weight 100 are nearer and a tile of weight 1 lies outside the disk
C15_Witness ==
    /\ tick.op = "start"
    /\ wall_start_point = <<0, 1>>
    /\ basic_cannon_grid[<<4, 8>>] = terrain_weight
    /\ basic_cannon_grid[<<8, 4>>] = blocking_building_weight
    /\ basic_cannon_grid[<<0, 0>>] = terrain_weight


C22_NoPlannerWithoutTable ==
    tick.planner = "constructed" =>
        /\ tick.table.keys = AllScores
        /\ tick.table.counts
        /\ tick.lookup # "KeyError"

(***************************************************************************)
(* Properties of the refactored convolution (SpecAvoid).                   *)
(***************************************************************************)
\* C23: with an avoid position strictly inside the window, every candidate
\* whose footprint shares a tile with the avoid position's footprint scores
\* at least 4096 in BuildingPlacement's grid and is a key of neither map.
C23_AvoidedInvalid ==
    (tick.op = "avoided" /\ AnchorStrictlyInside) =>
        \A grid \in {Table(BuildingPlacement_generate_convolution_grid(
                               initial_xbound, initial_ybound, {HIGH_GROUND},
                               get_pyastar_grid, {initial_cannon}))} :
            \A p \in Candidates :
                Footprint(p) \cap Footprint(initial_cannon) # {} =>
                    /\ Score(grid, p) >= 4096
                    /\ ~InAMap(p)

(***************************************************************************)
(* Properties of the cached start tile (SpecDestructible).                 *)
(***************************************************************************)
\* the weighted grid find_wall_path hands to the pathfinder in the update()
\* that produced the state
HandedGrid ==
    find_wall_path(initial_cannon, wall_start_point, basic_cannon_grid,
                   valid_blocks, invalid_blocks).grid

\* C24: the start tile find_wall_path hands to the pathfinder has weight 1
\* in the weighted grid handed over with it: it lies on no candidate's
\* footprint (weight 100 or 200) and not on the anchor's (infinity).
C24_StartTileOpen ==
    (tick.op = "update" /\ tick.pathfinder_called) =>
        HandedGrid[wall_start_point] = terrain_weight

\* C26: once wall_start_point holds a tile no step changes it, whether the
\* pathfinder found a walk from it or not and whatever has become of the
\* tile's weight.
C26_StartPointFixed ==
    [][wall_start_point # << >> => wall_start_point' = wall_start_point]_vars

\* C26 witness: an update() that called the pathfinder from the cached start
\* tile and got no walk, the tile being open ground by now and no longer of
\* weight 1 in the planner's grid
C26_Witness ==
    /\ tick.op = "update"
    /\ ~tick.start_searched /\ tick.pathfinder_called /\ ~tick.path_found
    /\ wall_start_point # << >>
    /\ world[wall_start_point] = "open"
    /\ basic_cannon_grid[wall_start_point] # terrain_weight

\* C27: a cached walk is never emptied: an update() in which find_wall_path
\* returns no walk leaves the cached walk as it was, an update() in which it
\* returns a walk caches that walk, and no other step touches the cache.
C27_WalkNeverEmptied ==
    [][/\ current_walling_path # << >> => current_walling_path' # << >>
       /\ IF tick'.op = "update" /\ tick'.walk # << >>
          THEN current_walling_path' = tick'.walk
          ELSE current_walling_path' = current_walling_path]_vars

\* C27 witness: a walk is cached, and the last update() called the
\* pathfinder and got no walk, once the start tile had become open ground
C27_Witness ==
    /\ tick.op = "update"
    /\ tick.pathfinder_called /\ tick.walk = << >>
    /\ current_walling_path # << >>
    /\ ~AwaitingStartPoint
    /\ world[wall_start_point] = "open"

(***************************************************************************)
(* Properties of the builder (SpecPlace).                                  *)
(***************************************************************************)
\* the worker stands strictly inside the rectangle spanned by the anchor and
\* the location, widened by half a tile on an axis where the two agree
InsideRectangle(w, a, l) ==
    LET wide_x == IF a[1] = l[1] THEN HALF_TILE ELSE 0
        wide_y == IF a[2] = l[2] THEN HALF_TILE ELSE 0
    IN  /\ Min(a[1], l[1]) - wide_x < w[1] /\ w[1] < Max(a[1], l[1]) + wide_x
        /\ Min(a[2], l[2]) - wide_y < w[2] /\ w[2] < Max(a[2], l[2]) + wide_y

\* C25: place_building gives exactly one order, to the worker whose tag it
\* returns, a worker nearest the anchor when final_placement is true and
\* nearest the location otherwise; the order is the build order when that
\* worker stands on the anchor or strictly inside the rectangle, and a move
\* to the anchor in every other case.
C25_OneWorkerCorrectSide ==
    tick.op = "placed" =>
        \E used \in {tick.worker_units[i] : i \in DOMAIN tick.worker_units} :
            LET target == IF next_building.final_placement
                          THEN Quarters(initial_cannon)
                          ELSE Quarters(next_building.location)
                may_build ==
                    \/ used.position = Quarters(initial_cannon)
                    \/ InsideRectangle(used.position, Quarters(initial_cannon),
                                       Quarters(next_building.location))
            IN  /\ tick.returned = used.tag
                /\ \A i \in DOMAIN tick.worker_units :
                      SquaredDistance(used.position, target)
                         <= SquaredDistance(tick.worker_units[i].position, target)
                /\ tick.orders =
                      {IF may_build
                       THEN [worker |-> used.tag, order |-> "build",
                             structure_type |-> next_building.type_id,
                             pos |-> Quarters(next_building.location)]
                       ELSE [worker |-> used.tag, order |-> "move",
                             structure_type |-> "None",
                             pos |-> Quarters(initial_cannon)]}

\* C25 witness: the location is straight above the anchor, the second worker
\* is the nearer one and stands a quarter of a tile beside the line between
\* the two: it gets the build order
C25_Witness ==
    /\ tick.op = "placed"
    /\ next_building.location = <<2, 4>> /\ ~next_building.final_placement
    /\ tick.worker_units[1].position = <<8, 8>>
    /\ tick.worker_units[2].position = <<7, 12>>
    /\ tick.returned = 2
    /\ \E o \in tick.orders : o.order = "build" /\ o.worker = 2

====
